---- MODULE Spec2Model ----
(***************************************************************************)
(* Model of src/triton/vector_addition.py: the masked block-parallel       *)
(* element-wise add kernel (add_kernel), its host launcher (add) and the   *)
(* bandwidth arithmetic of the benchmark harness (benchmark).              *)
(*                                                                         *)
(* Buffers are sequences; the element at offset o of a buffer is entry     *)
(* o + 1 of its sequence.  Lane k of tl.arange(0, BLOCK_SIZE) is index      *)
(* k + 1.  A block register maps the lanes that hold a specified value to   *)
(* that value; a lane outside its domain holds an unspecified value.        *)
(***************************************************************************)
EXTENDS Integers, Sequences, FiniteSets, TLC

\* Longest input buffer explored.
MaxLen == 3

\* Largest small block size explored besides the launcher's own 1024.
MaxBlock == 3

\* The block size add passes to the kernel.
DefaultBlockSize == 1024

\* Element values the first input is filled with, and the values a read
\* outside a buffer may produce.
Vals == {0, 1}

\* The second input of length n: the even numbers 0, 2, 4, ..., so that a sum
\* tells the offset it was read at and the element of the first input apart.
EvenRamp(n) == [i \in 1 .. n |-> 2 * (i - 1)]

\* Content of a position of torch.empty_like's result that nobody has
\* written yet: an unspecified value, kept symbolic.
UNINIT == -1

BlockSizes == (1 .. MaxBlock) \cup {DefaultBlockSize}

\* Block indices; one more than any launch needs.
PidSpace == 0 .. MaxLen

SeqsUpTo(S, n) == UNION {[1 .. k -> S] : k \in 0 .. n}

VARIABLES
    mem,         \* device memory: buffer name -> contents
    is_cuda,     \* buffer name -> whether it is device-resident
    BLOCK_SIZE,  \* the constexpr metaparameter of this launch
    pc,          \* the launcher's position in add
    n_elements,  \* add's local n_elements
    grid,        \* number of kernel instances the launch created
    launches,    \* block index -> how many times it was dispatched
    handle,      \* what add returned to its caller
    bpc,         \* block index -> the block's position in add_kernel
    regx,        \* block index -> the block's x
    regy,        \* block index -> the block's y
    rego,        \* block index -> the block's output
    log,         \* every memory access performed so far
    bench        \* state of one benchmark(size, provider) call

launcherVars == <<pc, n_elements, grid, launches, handle>>
blockVars == <<bpc, regx, regy, rego, log>>
vars == <<mem, is_cuda, BLOCK_SIZE, pc, n_elements, grid, launches, handle,
          bpc, regx, regy, rego, log, bench>>

----------------------------------------------------------------------------
\* add_kernel: the per-block computation

\* Faulty variant of Cdiv: the division rounds down.
CdivFloor(a, b) == a \div b

\* triton.cdiv(x, y)
Cdiv(a, b) == (a + b - 1) \div b

\* Faulty variant of BlockStart: the block size is added, not multiplied.
BlockStartAdded(pid, B) == pid + B

\* block_start = pid * BLOCK_SIZE
BlockStart(pid, B) == pid * B

\* tl.arange(lo, hi)
Arange(lo, hi) == [k \in 1 .. (hi - lo) |-> lo + k - 1]

\* Faulty variant of Offsets: the block index is not scaled by the block size.
OffsetsNoStride(pid, B) ==
    LET lanes == Arange(0, B)
    IN  [k \in DOMAIN lanes |-> pid + lanes[k]]

\* offsets = block_start + tl.arange(0, BLOCK_SIZE)
Offsets(pid, B) ==
    LET start == BlockStart(pid, B)
        lanes == Arange(0, B)
    IN  [k \in DOMAIN lanes |-> start + lanes[k]]

\* Faulty variant of Mask: the comparison admits offset n_elements itself.
MaskInclusive(offsets, n) == [k \in DOMAIN offsets |-> offsets[k] <= n]

\* mask = offsets < n_elements
Mask(offsets, n) == [k \in DOMAIN offsets |-> offsets[k] < n]

\* Faulty variant of StorePtr: the store goes through the first input's pointer.
StorePtrInput == "x"

\* The pointers the kernel's two loads and its store go through.
LoadPtrX == "x"
LoadPtrY == "y"
StorePtr == "output"

\* The mask the kernel hands to its loads and to its store.
LoadMask(offsets, n) == Mask(offsets, n)
StoreMask(offsets, n) == Mask(offsets, n)

\* Whether offset off lies inside a buffer with contents t.
InBounds(t, off) == 0 <= off /\ off < Len(t)

\* The lanes of an access that go to memory, and those among them that fall
\* outside the buffer.
ActiveLanes(offsets, m) == {k \in DOMAIN offsets : m[k]}
OobLanes(t, offsets, m) ==
    {k \in ActiveLanes(offsets, m) : ~InBounds(t, offsets[k])}

Accesses(pid, op, buf, offsets, m) ==
    {[pid |-> pid, op |-> op, buf |-> buf, off |-> offsets[k]] :
        k \in ActiveLanes(offsets, m)}

\* tl.load(ptr + offsets, mask=mask) from a buffer with contents t, no
\* `other` given: a masked-out lane is left unspecified, an in-bounds lane
\* holds the buffer's element, and an out-of-bounds lane that is not masked
\* out holds whatever the read produced (garbage[k]).
Loaded(t, offsets, m, garbage) ==
    [k \in ActiveLanes(offsets, m) |->
        IF InBounds(t, offsets[k]) THEN t[offsets[k] + 1] ELSE garbage[k]]

\* x + y on one lane
Plus(a, b) == a + b

\* output = x + y: specified on the lanes where both operands are.
AddRegs(x, y) == [k \in DOMAIN x \cap DOMAIN y |-> Plus(x[k], y[k])]

\* tl.store(ptr + offsets, value, mask=mask) into a buffer with contents t:
\* the contents after the store.  A write outside the buffer does not land in
\* it; an unspecified lane stores whatever it happens to hold (garbage[k]).
Stored(t, offsets, m, value, garbage) ==
    [i \in 1 .. Len(t) |->
        IF \E k \in ActiveLanes(offsets, m) : offsets[k] = i - 1
        THEN LET k == CHOOSE k \in ActiveLanes(offsets, m) : offsets[k] = i - 1
             IN  IF k \in DOMAIN value THEN value[k] ELSE garbage[k]
        ELSE t[i]]

\* x = tl.load(x_ptr + offsets, mask=mask) / y = tl.load(y_ptr + offsets, ...)
\* An out-of-bounds read is undefined: it yields garbage or faults the block.
Load(pid) ==
    /\ bpc[pid] \in {"loadx", "loady"}
    /\ LET isx == bpc[pid] = "loadx"
           buf == IF isx THEN LoadPtrX ELSE LoadPtrY
           offsets == Offsets(pid, BLOCK_SIZE)
           m == LoadMask(offsets, n_elements)
           oob == OobLanes(mem[buf], offsets, m)
       IN  /\ log' = log \cup Accesses(pid, "load", buf, offsets, m)
           /\ \/ \E garbage \in [oob -> Vals] :
                   /\ regx' = IF isx
                              THEN [regx EXCEPT ![pid] =
                                       Loaded(mem[buf], offsets, m, garbage)]
                              ELSE regx
                   /\ regy' = IF isx
                              THEN regy
                              ELSE [regy EXCEPT ![pid] =
                                       Loaded(mem[buf], offsets, m, garbage)]
                   /\ bpc' = [bpc EXCEPT ![pid] =
                                 IF isx THEN "loady" ELSE "add"]
              \/ /\ oob # {}
                 /\ bpc' = [bpc EXCEPT ![pid] = "fault"]
                 /\ UNCHANGED <<regx, regy>>
    /\ UNCHANGED <<mem, is_cuda, BLOCK_SIZE, launcherVars, rego, bench>>

\* output = x + y
Add(pid) ==
    /\ bpc[pid] = "add"
    /\ rego' = [rego EXCEPT ![pid] = AddRegs(regx[pid], regy[pid])]
    /\ bpc' = [bpc EXCEPT ![pid] = "store"]
    /\ UNCHANGED <<mem, is_cuda, BLOCK_SIZE, launcherVars, regx, regy, log,
                   bench>>

\* tl.store(output_ptr + offsets, output, mask=mask)
Store(pid) ==
    /\ bpc[pid] = "store"
    /\ LET offsets == Offsets(pid, BLOCK_SIZE)
           m == StoreMask(offsets, n_elements)
           unspecified == ActiveLanes(offsets, m) \ DOMAIN rego[pid]
       IN  /\ log' = log \cup Accesses(pid, "store", StorePtr, offsets, m)
           /\ \E garbage \in [unspecified -> Vals] :
                 mem' = [mem EXCEPT ![StorePtr] =
                            Stored(mem[StorePtr], offsets, m, rego[pid],
                                   garbage)]
    /\ bpc' = [bpc EXCEPT ![pid] = "done"]
    /\ UNCHANGED <<is_cuda, BLOCK_SIZE, launcherVars, regx, regy, rego, bench>>

----------------------------------------------------------------------------
\* add: the launcher

\* torch.empty_like(x)
EmptyLike(t) == [i \in 1 .. Len(t) |-> UNINIT]

\* Faulty variant of AssertOK: the second input is not looked at.
AssertOnlyX == is_cuda["x"] /\ is_cuda["output"]

\* assert x.is_cuda and y.is_cuda and output.is_cuda
AssertOK == is_cuda["x"] /\ is_cuda["y"] /\ is_cuda["output"]

\* Faulty variant of Numel: the size is taken from the second input.
NumelOfY == Len(mem["y"])

\* output.numel()
Numel == Len(mem["output"])

\* Faulty variants of Grid: one block more than the rounded-down quotient, and the
\* block count of the default block size whatever BLOCK_SIZE is.
GridPlusOne(n, B) == n \div B + 1
GridDefaultBlock(n, B) == Cdiv(n, DefaultBlockSize)

\* grid = lambda metaparams: (triton.cdiv(n_elements, metaparams['BLOCK_SIZE']), )
Grid(n, B) == Cdiv(n, B)

\* One kernel instance run to completion on its own: the output buffer's
\* contents after block pid has loaded, added and stored.
KernelBlock(x, y, out, n, pid, B) ==
    LET offsets == Offsets(pid, B)
        unspecified == [k \in DOMAIN offsets |-> UNINIT]
        xr == Loaded(x, offsets, LoadMask(offsets, n), unspecified)
        yr == Loaded(y, offsets, LoadMask(offsets, n), unspecified)
    IN  Stored(out, offsets, StoreMask(offsets, n), AddRegs(xr, yr),
               unspecified)

\* The kernel instances pid, pid + 1, ..., g - 1 run one after the other.
RECURSIVE RunFrom(_, _, _, _, _, _, _)
RunFrom(x, y, out, n, pid, g, B) ==
    IF pid >= g THEN out
    ELSE RunFrom(x, y, KernelBlock(x, y, out, n, pid, B), n, pid + 1, g, B)

\* add(x, y) with block size B and its blocks run in index order, one at a
\* time: the contents of the buffer it returns.
SequentialAdd(x, y, B) ==
    LET out == EmptyLike(x)
        n == Len(out)
    IN  RunFrom(x, y, out, n, 0, Grid(n, B), B)

\* output = torch.empty_like(x)
Alloc ==
    /\ pc = "alloc"
    /\ mem' = [mem EXCEPT !["output"] = EmptyLike(mem["x"])]
    /\ is_cuda' = [is_cuda EXCEPT !["output"] = is_cuda["x"]]
    /\ pc' = "assert"
    /\ UNCHANGED <<BLOCK_SIZE, n_elements, grid, launches, handle, blockVars,
                   bench>>

\* assert x.is_cuda and y.is_cuda and output.is_cuda
AssertStep ==
    /\ pc = "assert"
    /\ pc' = IF AssertOK THEN "numel" ELSE "error"
    /\ UNCHANGED <<mem, is_cuda, BLOCK_SIZE, n_elements, grid, launches,
                   handle, blockVars, bench>>

\* n_elements = output.numel()
NumelStep ==
    /\ pc = "numel"
    /\ n_elements' = Numel
    /\ pc' = "launch"
    /\ UNCHANGED <<mem, is_cuda, BLOCK_SIZE, grid, launches, handle,
                   blockVars, bench>>

\* add_kernel[grid](x, y, output, n_elements, BLOCK_SIZE=...): one kernel
\* instance per index of the 1D grid is created; the call does not wait.
Launch ==
    /\ pc = "launch"
    /\ LET g == Grid(n_elements, BLOCK_SIZE)
       IN  /\ grid' = g
           /\ bpc' = [pid \in PidSpace |->
                         IF pid < g THEN "loadx" ELSE bpc[pid]]
           /\ launches' = [pid \in PidSpace |->
                              IF pid < g THEN launches[pid] + 1
                              ELSE launches[pid]]
    /\ pc' = "return"
    /\ UNCHANGED <<mem, is_cuda, BLOCK_SIZE, n_elements, handle, regx, regy,
                   rego, log, bench>>

\* return output
Return ==
    /\ pc = "return"
    /\ handle' = "output"
    /\ pc' = "returned"
    /\ UNCHANGED <<mem, is_cuda, BLOCK_SIZE, n_elements, grid, launches,
                   blockVars, bench>>

----------------------------------------------------------------------------
\* benchmark: the bandwidth figures of one (size, provider) run

\* Longest execution time, in milliseconds, a measurement reports.
MaxTime == 3

\* x_vals=[2**i for i in range(12, 28, 1)]
Sizes == {2 ^ i : i \in 12 .. 27}

\* line_vals=['triton', 'torch']
Providers == {"triton", "torch"}

\* quantiles = [0.5, 0.2, 0.8], in percent
Quantiles == <<50, 20, 80>>

\* x.element_size() of a torch.float32 tensor
ElementSize == 4

\* What a run's timing can be: the execution time at each quantile asked for,
\* a higher quantile of the same sample never being the smaller time.
Measurements ==
    {t \in [{20, 50, 80} -> 1 .. MaxTime] : t[20] <= t[50] /\ t[50] <= t[80]}

\* triton.testing.do_bench(fn, quantiles=quantiles): the time at each quantile,
\* in the order the quantiles were given.
DoBenchResult(t, quantiles) == [i \in DOMAIN quantiles |-> t[quantiles[i]]]

\* gbps = lambda ms: 3 * x.numel() * x.element_size() / ms * 1e-6
\* as the exact fraction num / den (1e-6 is the divisor 1000000).
Gbps(numel, ms) == [num |-> 3 * numel * ElementSize, den |-> ms * 1000000]

\* Faulty variant of BenchResult: the figures follow the order of the measured times.
BenchResultAscending(numel, ms, min_ms, max_ms) ==
    <<Gbps(numel, ms), Gbps(numel, min_ms), Gbps(numel, max_ms)>>

\* return gbps(ms), gbps(max_ms), gbps(min_ms)
BenchResult(numel, ms, min_ms, max_ms) ==
    <<Gbps(numel, ms), Gbps(numel, max_ms), Gbps(numel, min_ms)>>

BenchIdle ==
    [phase |-> "idle", size |-> 0, provider |-> "none", numel |-> 0,
     measured |-> <<>>, ms |-> 0, min_ms |-> 0, max_ms |-> 0,
     result |-> <<>>]

\* benchmark(size, provider) is entered and x, y = torch.rand(size, ...)
BenchCall ==
    /\ bench.phase = "idle"
    /\ \E size \in Sizes, provider \in Providers :
          bench' = [bench EXCEPT !.phase = "inputs", !.size = size,
                                 !.provider = provider, !.numel = size]
    /\ UNCHANGED <<mem, is_cuda, BLOCK_SIZE, launcherVars, blockVars>>

\* ms, min_ms, max_ms = triton.testing.do_bench(..., quantiles=quantiles)
\* for either provider
DoBench ==
    /\ bench.phase = "inputs"
    /\ bench.provider \in {"torch", "triton"}
    /\ \E t \in Measurements :
          LET r == DoBenchResult(t, Quantiles)
          IN  bench' = [bench EXCEPT !.phase = "timed", !.measured = t,
                                     !.ms = r[1], !.min_ms = r[2],
                                     !.max_ms = r[3]]
    /\ UNCHANGED <<mem, is_cuda, BLOCK_SIZE, launcherVars, blockVars>>

\* return gbps(ms), gbps(max_ms), gbps(min_ms)
BenchReturn ==
    /\ bench.phase = "timed"
    /\ bench' = [bench EXCEPT !.phase = "done",
                              !.result = BenchResult(bench.numel, bench.ms,
                                                     bench.min_ms,
                                                     bench.max_ms)]
    /\ UNCHANGED <<mem, is_cuda, BLOCK_SIZE, launcherVars, blockVars>>

----------------------------------------------------------------------------

\* The pairs of buffers add is called with: equal lengths, which its contract
\* asks for, and lengths one apart either way, which it does not check for.
InputPairs ==
    {p \in SeqsUpTo(Vals, MaxLen) \X {EvenRamp(n) : n \in 0 .. MaxLen} :
        Len(p[1]) - Len(p[2]) \in {-1, 0, 1}}

\* The state on entry to add(x, y): the caller's two buffers, each resident
\* on the device or not, and nothing allocated or launched yet.
Init ==
    /\ \E p \in InputPairs : mem = [x |-> p[1], y |-> p[2], output |-> <<>>]
    /\ \E cx \in BOOLEAN, cy \in BOOLEAN :
          is_cuda = [x |-> cx, y |-> cy, output |-> FALSE]
    /\ BLOCK_SIZE \in BlockSizes
    /\ pc = "alloc"
    /\ n_elements = 0
    /\ grid = 0
    /\ launches = [pid \in PidSpace |-> 0]
    /\ handle = "none"
    /\ bpc = [pid \in PidSpace |-> "idle"]
    /\ regx = [pid \in PidSpace |-> <<>>]
    /\ regy = [pid \in PidSpace |-> <<>>]
    /\ rego = [pid \in PidSpace |-> <<>>]
    /\ log = {}
    /\ bench = BenchIdle

Next ==
    \/ Alloc
    \/ AssertStep
    \/ NumelStep
    \/ Launch
    \/ Return
    \/ \E pid \in PidSpace : Load(pid)
    \/ \E pid \in PidSpace : Add(pid)
    \/ \E pid \in PidSpace : Store(pid)

Spec == Init /\ [][Next]_vars

\* One benchmark(size, provider) call, with no add in flight.
InitBench ==
    /\ mem = [x |-> <<>>, y |-> <<>>, output |-> <<>>]
    /\ is_cuda = [x |-> TRUE, y |-> TRUE, output |-> FALSE]
    /\ BLOCK_SIZE = DefaultBlockSize
    /\ pc = "alloc"
    /\ n_elements = 0
    /\ grid = 0
    /\ launches = [pid \in PidSpace |-> 0]
    /\ handle = "none"
    /\ bpc = [pid \in PidSpace |-> "idle"]
    /\ regx = [pid \in PidSpace |-> <<>>]
    /\ regy = [pid \in PidSpace |-> <<>>]
    /\ rego = [pid \in PidSpace |-> <<>>]
    /\ log = {}
    /\ bench = BenchIdle

NextBench ==
    \/ BenchCall
    \/ DoBench
    \/ BenchReturn

SpecBench == InitBench /\ [][NextBench]_vars

----------------------------------------------------------------------------
\* Properties

X == mem["x"]
Y == mem["y"]
Out == mem["output"]

EqualLen == Len(X) = Len(Y)

\* add_kernel[grid](...) has been executed.
Dispatched == pc \in {"return", "returned"}

\* Every kernel instance the launch created has run to completion.
AllDone == Dispatched /\ \A pid \in PidSpace : bpc[pid] \in {"idle", "done"}

\* ceil(n / B), from its definition: the least g with g * B >= n.
CeilDiv(n, B) == CHOOSE g \in 0 .. n : g * B >= n /\ (g = 0 \/ (g - 1) * B < n)

\* The offsets block pid neither masks out of its loads nor of its store.
ValidOffsets(pid, B, n) ==
    LET offsets == Offsets(pid, B)
    IN  {offsets[k] : k \in ActiveLanes(offsets, LoadMask(offsets, n))
                                \cap ActiveLanes(offsets, StoreMask(offsets, n))}

\* C1: for equal-length device-resident inputs, once all dispatched blocks
\* have completed the output has exactly n elements and output[i] = a[i] + b[i]
\* at every i in [0, n); no position keeps its uninitialised content.
C1_AddIsElementwiseSum ==
    (EqualLen /\ AllDone) =>
        /\ Len(Out) = Len(X)
        /\ \A i \in 1 .. Len(X) : Out[i] = X[i] + Y[i] /\ Out[i] # UNINIT

C1_Witness ==
    /\ EqualLen /\ AllDone
    /\ Len(X) = 3 /\ BLOCK_SIZE = 2 /\ grid = 2
    /\ X = <<1, 0, 1>> /\ Y = <<0, 2, 4>>
    /\ Out = <<1, 2, 5>>

\* C2: with inputs of equal length n, every read of an input and every write
\* of the output is at an offset o with 0 <= o < n, in every state of every
\* block; the last, partial block included.
C2_AccessesInBounds ==
    EqualLen =>
        \A a \in log :
            /\ 0 <= a.off /\ a.off < Len(X)
            /\ a.op = "load" => a.buf \in {"x", "y"}
            /\ a.op = "store" => a.buf = "output"

C2_Witness ==
    /\ EqualLen /\ Len(X) = 3 /\ BLOCK_SIZE = 2
    /\ bpc[1] = "done"
    /\ DOMAIN regx[1] = {1}
    /\ [pid |-> 1, op |-> "store", buf |-> "output", off |-> 2] \in log

\* C3: the valid offset sets of the blocks pid in [0, ceil(n / BLOCK_SIZE))
\* partition [0, n): each is [pid*B, pid*B + B) cut to [0, n), every index of
\* [0, n) is in exactly one of them, and no two of them overlap.
C3_ValidOffsetsPartition ==
    Dispatched =>
        LET n == n_elements
            B == BLOCK_SIZE
            blocks == 0 .. CeilDiv(n, B) - 1
            \* the pairs <<block, offset>> with the offset valid in the block
            valid == UNION {{<<pid, o>> : o \in ValidOffsets(pid, B, n)} :
                               pid \in blocks}
        IN  /\ \A pid \in blocks :
                  {v[2] : v \in {w \in valid : w[1] = pid}} =
                      (pid * B .. pid * B + B - 1) \cap (0 .. n - 1)
            /\ \A i \in 0 .. n - 1 :
                  Cardinality({v \in valid : v[2] = i}) = 1
            /\ \A v \in valid, w \in valid : v[2] = w[2] => v[1] = w[1]

C3_Witness ==
    /\ Dispatched /\ n_elements = 3 /\ BLOCK_SIZE = 2
    /\ ValidOffsets(0, BLOCK_SIZE, n_elements) = {0, 1}
    /\ ValidOffsets(1, BLOCK_SIZE, n_elements) = {2}

\* C4: add dispatches the kernel exactly once for each block index in
\* [0, ceil(n_elements / BLOCK_SIZE)) and for no other index: no block when
\* n_elements = 0, and one block, valid at offset 0 only, when n_elements = 1
\* and BLOCK_SIZE = 1024.
C4_OneDispatchPerBlock ==
    /\ ~Dispatched => \A pid \in PidSpace : launches[pid] = 0
    /\ Dispatched =>
          /\ grid = CeilDiv(n_elements, BLOCK_SIZE)
          /\ \A pid \in PidSpace :
                launches[pid] =
                    IF pid < CeilDiv(n_elements, BLOCK_SIZE) THEN 1 ELSE 0
          /\ \A pid \in PidSpace :
                bpc[pid] = "idle" <=> pid >= CeilDiv(n_elements, BLOCK_SIZE)
          /\ n_elements = 0 => grid = 0
          /\ (n_elements = 1 /\ BLOCK_SIZE = 1024) =>
                grid = 1 /\ ValidOffsets(0, BLOCK_SIZE, n_elements) = {0}

C4_Witness ==
    /\ Dispatched /\ n_elements = 1 /\ BLOCK_SIZE = 1024
    /\ launches[0] = 1 /\ launches[1] = 0
    /\ bpc[0] = "done"

\* C5: if an input (or the output, which has the residency of the first
\* input) is not device-resident, add fails at the assertion before any block
\* is dispatched: no block has run, no output element is written, no handle
\* is returned; and add signals no error in any other case.
C5_FailsFastOffDevice ==
    /\ pc \notin {"alloc"} => is_cuda["output"] = is_cuda["x"]
    /\ pc = "error" => ~(is_cuda["x"] /\ is_cuda["y"])
    /\ ~(is_cuda["x"] /\ is_cuda["y"]) =>
          /\ pc \in {"alloc", "assert", "error"}
          /\ grid = 0
          /\ \A pid \in PidSpace : bpc[pid] = "idle" /\ launches[pid] = 0
          /\ log = {}
          /\ \A i \in 1 .. Len(Out) : Out[i] = UNINIT
          /\ handle = "none"

C5_Witness ==
    /\ pc = "error"
    /\ is_cuda["x"] /\ ~is_cuda["y"]
    /\ Len(X) = 3 /\ Len(Out) = 3

\* C6 as claimed: once add has returned, no buffer, input or output, is
\* mutated any more.
C6_NoMutationAfterReturn ==
    [][pc = "returned" => mem' = mem]_vars

\* C6, amended: once add has returned, neither input buffer is mutated any
\* more; the output buffer is still written by the blocks that have not
\* finished, and is not mutated any more once all of them have.
C6_InputsFrozenOutputUntilDone ==
    [][pc = "returned" =>
          /\ mem'["x"] = mem["x"]
          /\ mem'["y"] = mem["y"]
          /\ AllDone => mem' = mem]_vars

C6_Witness ==
    /\ pc = "returned" /\ handle = "output"
    /\ bpc[0] = "done" /\ bpc[1] = "store"
    /\ Out[1] # UNINIT /\ Out[2] = UNINIT

\* C7: the block size does not change the output values: for equal-length
\* inputs the output after all blocks complete equals the output of add under
\* every other block size.
C7_BlockSizeIrrelevant ==
    (EqualLen /\ AllDone) =>
        \A B2 \in BlockSizes : Out = SequentialAdd(X, Y, B2)

C7_Witness ==
    /\ EqualLen /\ AllDone /\ Len(X) = 3
    /\ BLOCK_SIZE = 1 /\ grid = 3
    /\ Out = SequentialAdd(X, Y, DefaultBlockSize)
    /\ Out = <<0, 3, 4>>

\* C8: under every interleaving of the blocks' steps no output offset is
\* written by two different blocks and no block reads a location another
\* block writes, and (for the equal-length inputs the kernel is specified for)
\* the final output is that of the blocks run one after the other.
C8_BlocksIndependent ==
    /\ \A a \in log, b \in log :
          (a.op = "store" /\ b.buf = a.buf /\ b.off = a.off) => b.pid = a.pid
    /\ (EqualLen /\ AllDone) => Out = SequentialAdd(X, Y, BLOCK_SIZE)

C8_Witness ==
    /\ EqualLen /\ grid = 3
    /\ bpc[2] = "done" /\ bpc[1] = "store" /\ bpc[0] = "loadx"
    /\ pc = "return"

\* C9: add checks no lengths: for device-resident inputs of different
\* lengths it signals no error, the output has the length of x, n_elements is
\* len(x), ceil(len(x) / BLOCK_SIZE) blocks are dispatched and each reads y
\* at every offset of its range below len(x): at offsets >= len(y) when y is
\* the shorter, and never at an offset >= len(x) when y is the longer.
C9_NoLengthCheck ==
    (~EqualLen /\ is_cuda["x"] /\ is_cuda["y"]) =>
        /\ pc # "error"
        /\ pc # "alloc" => Len(Out) = Len(X)
        /\ pc \in {"launch", "return", "returned"} => n_elements = Len(X)
        /\ Dispatched =>
              /\ grid = CeilDiv(Len(X), BLOCK_SIZE)
              /\ \A pid \in PidSpace : launches[pid] = IF pid < grid THEN 1 ELSE 0
        /\ \A pid \in PidSpace :
              bpc[pid] \in {"add", "store", "done", "fault"} =>
                  {a.off : a \in {b \in log : b.pid = pid /\ b.buf = "y"}} =
                      (pid * BLOCK_SIZE .. pid * BLOCK_SIZE + BLOCK_SIZE - 1)
                          \cap (0 .. Len(X) - 1)
        /\ \A a \in log : a.buf = "y" => a.off < Len(X)

C9_Witness ==
    /\ is_cuda["x"] /\ is_cuda["y"]
    /\ Len(Y) < Len(X)
    /\ pc = "returned"
    /\ \E a \in log : a.buf = "y" /\ a.op = "load" /\ a.off >= Len(Y)

\* The bandwidth figure the harness is described to report for a time:
\* 3 * n_elements * element_size_bytes / time * constant.
Bandwidth(n, time) == [num |-> 3 * n * 4, den |-> time * 1000000]

\* C10 as claimed: benchmark reports (bandwidth at the median time,
\* bandwidth at the 20th-percentile time, bandwidth at the 80th-percentile
\* time).
C10_MedianP20P80 ==
    bench.phase = "done" =>
        bench.result = <<Bandwidth(bench.size, bench.measured[50]),
                         Bandwidth(bench.size, bench.measured[20]),
                         Bandwidth(bench.size, bench.measured[80])>>

\* C10, amended: benchmark reports (bandwidth at the median time, bandwidth
\* at the 80th-percentile time, bandwidth at the 20th-percentile time), each
\* figure being 3 * n_elements * element_size_bytes / time * constant.
C10_MedianP80P20 ==
    bench.phase = "done" =>
        bench.result = <<Bandwidth(bench.size, bench.measured[50]),
                         Bandwidth(bench.size, bench.measured[80]),
                         Bandwidth(bench.size, bench.measured[20])>>

C10_Witness ==
    /\ bench.phase = "done"
    /\ bench.measured[20] < bench.measured[50]
    /\ bench.measured[50] < bench.measured[80]
    /\ bench.result[2].den > bench.result[3].den

====
